---- MODULE Spec2Model ----
(***************************************************************************)
(* State-machine model of dendropy/dataobject/taxon.py: the TaxonSet       *)
(* registry (an OrderedSet of Taxon references with a mutability flag) and *)
(* the split-bitmask encoding that is cached per Taxon in `clade_mask`.    *)
(*                                                                         *)
(* Taxon objects are handles 1..Len(taxon_label); a handle is the object's *)
(* reference (identity).  Handle 0 is Python's None.                       *)
(***************************************************************************)
EXTENDS Integers, Sequences, FiniteSets

\* ------------------------------------------------------------------ bounds
MaxTaxa == 2          \* Taxon objects ever created in one run
MaxItems == 2         \* length of the iterable handed to TaxonSet(...)

Labels == {"A", "B"}  \* label strings the callers use
Regs == {1, 2}        \* registry objects: 1 is built by Init, 2 by TaxonSet_init
None == 0             \* Python None, where a Taxon reference or oid is expected
NoLabel == "None"     \* Python None, where a label is expected
NoMask == 0           \* the Taxon has no clade_mask attribute yet
NoRet == -1           \* the call returned nothing (or raised)

VARIABLES taxon_label,   \* Taxon.label of every Taxon object created so far
          taxon_oid,     \* Taxon.oid of every Taxon object created so far
          clade_mask,    \* Taxon.clade_mask, NoMask while the attribute is unset
          members,       \* the OrderedSet contents of each TaxonSet
          is_mutable,    \* TaxonSet._is_mutable
          live,          \* the TaxonSet objects that have been constructed
          call           \* the last call: operation, arguments, outcome, result

vars == <<taxon_label, taxon_oid, clade_mask, members, is_mutable, live, call>>

Handles == 1..Len(taxon_label)

\* The criteria callers pass to require_taxon and new_taxon: a label or none,
\* and no oid (the Taxon created gets the default one).
OidArgs == {None}
LabelArgs == {NoLabel} \cup Labels

\* ----------------------------------------------------------- pure helpers
Range(s) == {s[i] : i \in 1..Len(s)}

\* list.index(x): 1-based position of the first occurrence, 0 when absent
\* (Python raises ValueError there).
IndexOf(s, x) ==
  IF x \in Range(s) THEN CHOOSE i \in 1..Len(s) : s[i] = x /\ \A j \in 1..(i-1) : s[j] # x
  ELSE 0

\* x << n on Python's unbounded integers
ShiftLeft(x, n) == x * (2 ^ n)

\* ~x on Python's unbounded integers (two's complement)
Invert(x) == (0 - x) - 1

\* x & y on Python's unbounded integers, for y >= 0 (x may be negative)
RECURSIVE BitAnd(_, _)
BitAnd(x, y) ==
  IF y = 0 THEN 0
  ELSE ((x % 2) * (y % 2)) + 2 * BitAnd(x \div 2, y \div 2)

\* x | y and x ^ y for x, y >= 0; used to state properties of the masks
RECURSIVE BitOr(_, _)
BitOr(x, y) ==
  IF x = 0 THEN y
  ELSE IF y = 0 THEN x
  ELSE (IF (x % 2) + (y % 2) > 0 THEN 1 ELSE 0) + 2 * BitOr(x \div 2, y \div 2)

RECURSIVE BitXor(_, _)
BitXor(x, y) ==
  IF x = 0 THEN y
  ELSE IF y = 0 THEN x
  ELSE (((x % 2) + (y % 2)) % 2) + 2 * BitXor(x \div 2, y \div 2)

\* The record kept of the last call: its arguments (reg, taxon, oid, label,
\* mask, count), how it ended (outcome) and what it returned: an integer or a
\* Taxon (ret), a truth value (flag), a string (text) or a list of strings
\* (list).
CallRecord(op, r, t, o, l, m, n, out, ret, flag, text, list) ==
  [op |-> op, reg |-> r, taxon |-> t, oid |-> o, label |-> l, mask |-> m,
   count |-> n, outcome |-> out, ret |-> ret, flag |-> flag, text |-> text,
   list |-> list]

\* The record of a call that takes no count and returns no string or list.
Call(op, r, t, o, l, m, out, ret, flag) ==
  CallRecord(op, r, t, o, l, m, 0, out, ret, flag, "", <<>>)

\* ------------------------------------------------- containers.OrderedSet
\* OrderedSet.add(x): append x unless it is already an element.
OrderedSet_add(s, x) == IF x \in Range(s) THEN s ELSE Append(s, x)

\* OrderedSet.remove(x): drop the first occurrence of x.
OrderedSet_remove(s, x) ==
  LET i == IndexOf(s, x)
  IN  IF i = 0 THEN s
      ELSE [j \in 1..(Len(s) - 1) |-> IF j < i THEN s[j] ELSE s[j + 1]]

\* OrderedSet(iterable): the elements in order, later duplicates dropped.
RECURSIVE OrderedSet_init(_)
OrderedSet_init(s) ==
  IF s = <<>> THEN <<>>
  ELSE OrderedSet_add(OrderedSet_init(SubSeq(s, 1, Len(s) - 1)), s[Len(s)])

\* --------------------------------------------------------------- Taxon
\* base.IdTagged gives an object without an explicit oid a unique one.
default_oid(h) == h

\* Taxon(label=l, oid=o): a new Taxon object, in no TaxonSet.
Taxon(l, o) ==
  /\ Len(taxon_label) < MaxTaxa
  /\ taxon_label' = Append(taxon_label, l)
  /\ taxon_oid' = Append(taxon_oid, IF o = None THEN default_oid(Len(taxon_label) + 1) ELSE o)
  /\ clade_mask' = Append(clade_mask, NoMask)
  /\ call' = Call("Taxon", 0, None, o, l, NoRet, "ok", Len(taxon_label) + 1, FALSE)
  /\ UNCHANGED <<members, is_mutable, live>>

\* -------------------------------------------------------- new_taxon_set
MaxCount == 1000      \* largest ntax handed to new_taxon_set

\* The number of times n can be divided by 10 before it drops below 10.
RECURSIVE floor_log10(_)
floor_log10(n) == IF n < 10 THEN 0 ELSE 1 + floor_log10(n \div 10)

\* The ntax up to 200000 for which math.log(ntax, 10), the quotient of two
\* doubles log(ntax) / log(10), lies below the exact logarithm's integer
\* value: math.log(1000, 10) is 2.9999999999999996.
FloatLogShortfall == {1000}

\* int(math.log(ntax, 10))
int_math_log(ntax) ==
  IF ntax \in FloatLogShortfall THEN floor_log10(ntax) - 1 ELSE floor_log10(ntax)

Digit(d) == <<"0", "1", "2", "3", "4", "5", "6", "7", "8", "9">>[d + 1]

\* "%d" % x
RECURSIVE decimal(_)
decimal(x) == IF x < 10 THEN Digit(x) ELSE decimal(x \div 10) \o Digit(x % 10)

\* "%0<width>d" % x: zeros are put in front until the width is reached
RECURSIVE zero_fill(_, _)
zero_fill(str, width) == IF Len(str) >= width THEN str ELSE zero_fill("0" \o str, width)

\* new_taxon_set(ntax) with the default label_func; r is the TaxonSet it
\* creates and returns.  Every new_taxon call finds the new TaxonSet mutable.
new_taxon_set(r, ntax) ==
  /\ r \notin live
  /\ IF ntax = 0
     THEN \* math.log(0, 10) raises
          /\ call' = CallRecord("new_taxon_set", r, None, None, NoLabel, NoRet, ntax,
                                "ValueError", NoRet, FALSE, "", <<>>)
          /\ UNCHANGED <<taxon_label, taxon_oid, clade_mask, members, is_mutable, live>>
     ELSE LET label_idx_length == int_math_log(ntax) + 1
              label_func(x) == "T" \o zero_fill(decimal(x), label_idx_length)
              n == Len(taxon_label)
          IN  /\ taxon_label' = taxon_label \o [i \in 1..ntax |-> label_func(i)]
              /\ taxon_oid' = taxon_oid \o [i \in 1..ntax |-> default_oid(n + i)]
              /\ clade_mask' = clade_mask \o [i \in 1..ntax |-> NoMask]
              /\ members' = [members EXCEPT ![r] = [i \in 1..ntax |-> n + i]]
              /\ is_mutable' = [is_mutable EXCEPT ![r] = TRUE]
              /\ live' = live \cup {r}
              /\ call' = CallRecord("new_taxon_set", r, None, None, NoLabel, NoRet, ntax,
                                    "ok", r, FALSE, "", <<>>)

\* ------------------------------------------------ TaxonSet: construction
\* What an iterable handed to TaxonSet(...) may hold: a label string, a
\* reference to an existing Taxon, or an object of another type.
StrItem(l) == [kind |-> "str", label |-> l, taxon |-> None]
TaxonItem(t) == [kind |-> "Taxon", label |-> NoLabel, taxon |-> t]
OtherItem == [kind |-> "other", label |-> NoLabel, taxon |-> None]

\* The Taxon objects `[TaxonSet._to_taxon(i) for i in args[0]]` yields, when n
\* Taxon objects exist before the comprehension starts.
RECURSIVE to_taxon(_, _)
to_taxon(items, n) ==
  IF items = <<>> THEN <<>>
  ELSE IF Head(items).kind = "Taxon"
       THEN <<Head(items).taxon>> \o to_taxon(Tail(items), n)
       ELSE <<n + 1>> \o to_taxon(Tail(items), n + 1)

\* The labels of the Taxon objects that the comprehension creates, in order.
RECURSIVE new_labels(_)
new_labels(items) ==
  IF items = <<>> THEN <<>>
  ELSE IF Head(items).kind = "str"
       THEN <<Head(items).label>> \o new_labels(Tail(items))
       ELSE new_labels(Tail(items))

\* TaxonSet(*args, is_mutable=m) with la positional arguments, the first of
\* which is the iterable `items`.
TaxonSet_init(r, la, items, m) ==
  /\ r \notin live
  /\ LET n == Len(taxon_label)
         fresh == new_labels(items)
     IN  IF la > 1
         THEN /\ call' = Call("TaxonSet", r, None, None, NoLabel, NoRet, "TypeError", NoRet, m)
              /\ UNCHANGED <<taxon_label, taxon_oid, clade_mask, members, is_mutable, live>>
         ELSE IF la = 1 /\ \E i \in 1..Len(items) : items[i].kind = "other"
         THEN /\ call' = Call("TaxonSet", r, None, None, NoLabel, NoRet, "ValueError", NoRet, m)
              /\ UNCHANGED <<taxon_label, taxon_oid, clade_mask, members, is_mutable, live>>
         ELSE IF la = 1
         THEN /\ n + Len(fresh) <= MaxTaxa
              /\ taxon_label' = taxon_label \o fresh
              /\ taxon_oid' = taxon_oid \o [i \in 1..Len(fresh) |-> default_oid(n + i)]
              /\ clade_mask' = clade_mask \o [i \in 1..Len(fresh) |-> NoMask]
              /\ members' = [members EXCEPT ![r] = OrderedSet_init(to_taxon(items, n))]
              /\ is_mutable' = [is_mutable EXCEPT ![r] = m]
              /\ live' = live \cup {r}
              /\ call' = Call("TaxonSet", r, None, None, NoLabel, NoRet, "ok", NoRet, m)
         ELSE /\ members' = [members EXCEPT ![r] = <<>>]
              /\ is_mutable' = [is_mutable EXCEPT ![r] = m]
              /\ live' = live \cup {r}
              /\ call' = Call("TaxonSet", r, None, None, NoLabel, NoRet, "ok", NoRet, m)
              /\ UNCHANGED <<taxon_label, taxon_oid, clade_mask>>

\* __deepcopy__ that leaves is_mutable to the constructor's default
deepcopy_default_gate(r, o) ==
  /\ r \in live
  /\ o \notin live
  /\ members' = [members EXCEPT ![o] = OrderedSet_init(members[r])]
  /\ is_mutable' = [is_mutable EXCEPT ![o] = TRUE]
  /\ live' = live \cup {o}
  /\ call' = Call("deepcopy", r, None, None, NoLabel, NoRet, "ok", o, is_mutable[r])
  /\ UNCHANGED <<taxon_label, taxon_oid, clade_mask>>

\* copy.deepcopy(TaxonSet r): TaxonSet.__deepcopy__ builds the new TaxonSet o
\* as TaxonSet(list(self), is_mutable=self._is_mutable); every element of
\* list(self) is a Taxon, which _to_taxon hands back as it is.
deepcopy(r, o) ==
  /\ r \in live
  /\ o \notin live
  /\ LET items == [i \in 1..Len(members[r]) |-> TaxonItem(members[r][i])]
     IN  members' = [members EXCEPT ![o] = OrderedSet_init(to_taxon(items, Len(taxon_label)))]
  /\ is_mutable' = [is_mutable EXCEPT ![o] = is_mutable[r]]
  /\ live' = live \cup {o}
  /\ call' = Call("deepcopy", r, None, None, NoLabel, NoRet, "ok", o, is_mutable[r])
  /\ UNCHANGED <<taxon_label, taxon_oid, clade_mask>>

\* ------------------------------------------------------- TaxonSet: gate
lock(r) ==
  /\ r \in live
  /\ is_mutable' = [is_mutable EXCEPT ![r] = FALSE]
  /\ call' = Call("lock", r, None, None, NoLabel, NoRet, "ok", NoRet, FALSE)
  /\ UNCHANGED <<taxon_label, taxon_oid, clade_mask, members, live>>

unlock(r) ==
  /\ r \in live
  /\ is_mutable' = [is_mutable EXCEPT ![r] = TRUE]
  /\ call' = Call("unlock", r, None, None, NoLabel, NoRet, "ok", NoRet, FALSE)
  /\ UNCHANGED <<taxon_label, taxon_oid, clade_mask, members, live>>

get_is_locked(r) ==
  /\ r \in live
  /\ call' = Call("get_is_locked", r, None, None, NoLabel, NoRet, "ok", NoRet, is_mutable[r])
  /\ UNCHANGED <<taxon_label, taxon_oid, clade_mask, members, is_mutable, live>>

\* v is the truth value of the assigned object, bool(v)
set_is_locked(r, v) ==
  /\ r \in live
  /\ is_mutable' = [is_mutable EXCEPT ![r] = v]
  /\ call' = Call("set_is_locked", r, None, None, NoLabel, NoRet, "ok", NoRet, v)
  /\ UNCHANGED <<taxon_label, taxon_oid, clade_mask, members, live>>

\* ----------------------------------------------------- TaxonSet: lookup
\* get_taxon that keeps scanning and returns the last match
get_taxon_last_match(r, o, l) ==
  LET s == members[r]
      hit(i) == \/ (o # None /\ taxon_oid[s[i]] = o)
                \/ (l # NoLabel /\ taxon_label[s[i]] = l)
  IN  IF \E i \in 1..Len(s) : hit(i)
      THEN s[CHOOSE i \in 1..Len(s) : hit(i) /\ \A j \in (i+1)..Len(s) : ~hit(j)]
      ELSE None

\* get_taxon(oid=o, label=l): first member whose oid or label matches, else None
get_taxon(r, o, l) ==
  LET s == members[r]
      hit(i) == \/ (o # None /\ taxon_oid[s[i]] = o)
                \/ (l # NoLabel /\ taxon_label[s[i]] = l)
  IN  IF \E i \in 1..Len(s) : hit(i)
      THEN s[CHOOSE i \in 1..Len(s) : hit(i) /\ \A j \in 1..(i-1) : ~hit(j)]
      ELSE None

\* has_taxon(taxon=t, oid=o, label=l); a keyword that is left out is None
has_taxon(r, t, o, l) ==
  /\ r \in live
  /\ t \in {None} \cup Handles
  /\ LET s == members[r]
         hit(i) == \/ (t # None /\ t = s[i])
                   \/ (o # None /\ taxon_oid[s[i]] = o)
                   \/ (l # NoLabel /\ taxon_label[s[i]] = l)
     IN  IF t = None /\ o = None /\ l = NoLabel
         THEN call' = Call("has_taxon", r, t, o, l, NoRet, "InvalidQueryError", NoRet, FALSE)
         ELSE call' = Call("has_taxon", r, t, o, l, NoRet, "ok", NoRet,
                           \E i \in 1..Len(s) : hit(i))
  /\ UNCHANGED <<taxon_label, taxon_oid, clade_mask, members, is_mutable, live>>

\* has_taxa(taxa=..., oids=..., labels=...); given is false when none of the
\* three keywords is passed, and a keyword left out counts as an empty list.
has_taxa(r, given, taxa, oids, labels) ==
  /\ r \in live
  /\ taxa \subseteq Handles
  /\ LET s == members[r]
         taxon_oids == {taxon_oid[s[i]] : i \in 1..Len(s)}
         taxon_labels == {taxon_label[s[i]] : i \in 1..Len(s)}
     IN  IF ~given
         THEN /\ taxa = {} /\ oids = {} /\ labels = {}
              /\ call' = Call("has_taxa", r, None, None, NoLabel, NoRet,
                              "InvalidQueryError", NoRet, FALSE)
         ELSE call' = Call("has_taxa", r, None, None, NoLabel, NoRet, "ok", NoRet,
                           /\ taxa \subseteq Range(s)
                           /\ oids \subseteq taxon_oids
                           /\ labels \subseteq taxon_labels)
  /\ UNCHANGED <<taxon_label, taxon_oid, clade_mask, members, is_mutable, live>>

\* get_taxon(oid=o, label=l), the call
get_taxon_call(r, o, l) ==
  /\ r \in live
  /\ IF o = None /\ l = NoLabel
     THEN call' = Call("get_taxon", r, None, o, l, NoRet, "InvalidQueryError", NoRet, FALSE)
     ELSE call' = Call("get_taxon", r, None, o, l, NoRet, "ok", get_taxon(r, o, l), FALSE)
  /\ UNCHANGED <<taxon_label, taxon_oid, clade_mask, members, is_mutable, live>>

\* labels()
labels(r) ==
  /\ r \in live
  /\ call' = CallRecord("labels", r, None, None, NoLabel, NoRet, 0, "ok", NoRet, FALSE, "",
                        [i \in 1..Len(members[r]) |-> taxon_label[members[r][i]]])
  /\ UNCHANGED <<taxon_label, taxon_oid, clade_mask, members, is_mutable, live>>

\* texttools.int_to_bitstring(n): the binary digits of n, highest first
RECURSIVE int_to_bitstring(_)
int_to_bitstring(n) ==
  IF n < 2 THEN Digit(n) ELSE int_to_bitstring(n \div 2) \o Digit(n % 2)

\* str.rjust(width, "0")
RECURSIVE rjust(_, _)
rjust(str, width) == IF Len(str) >= width THEN str ELSE rjust("0" \o str, width)

\* split_bitmask_string(split_bitmask)
split_bitmask_string(r, split_bitmask) ==
  /\ r \in live
  /\ call' = CallRecord("split_bitmask_string", r, None, None, NoLabel, split_bitmask, 0,
                        "ok", NoRet, FALSE,
                        rjust(int_to_bitstring(split_bitmask), Len(members[r])), <<>>)
  /\ UNCHANGED <<taxon_label, taxon_oid, clade_mask, members, is_mutable, live>>

\* --------------------------------------------------- TaxonSet: mutation
\* require_taxon that skips the lookup and creates a Taxon on every call
require_taxon_always_creates(r, o, l) ==
  /\ r \in live
  /\ LET h == Len(taxon_label) + 1
     IN  IF o = None /\ l = NoLabel
         THEN /\ call' = Call("require_taxon", r, None, o, l, NoRet, "InvalidQueryError", NoRet, FALSE)
              /\ UNCHANGED <<taxon_label, taxon_oid, clade_mask, members, is_mutable, live>>
         ELSE IF is_mutable[r]
         THEN /\ Len(taxon_label) < MaxTaxa
              /\ taxon_label' = Append(taxon_label, l)
              /\ taxon_oid' = Append(taxon_oid, IF o = None THEN default_oid(h) ELSE o)
              /\ clade_mask' = Append(clade_mask, NoMask)
              /\ members' = [members EXCEPT ![r] = OrderedSet_add(@, h)]
              /\ call' = Call("require_taxon", r, None, o, l, NoRet, "ok", h, FALSE)
              /\ UNCHANGED <<is_mutable, live>>
         ELSE /\ call' = Call("require_taxon", r, None, o, l, NoRet, "ImmutableError", NoRet, FALSE)
              /\ UNCHANGED <<taxon_label, taxon_oid, clade_mask, members, is_mutable, live>>

\* require_taxon that creates the missing Taxon without the test of _is_mutable
require_taxon_ungated(r, o, l) ==
  /\ r \in live
  /\ LET taxon == get_taxon(r, o, l)
         h == Len(taxon_label) + 1
     IN  IF o = None /\ l = NoLabel
         THEN /\ call' = Call("require_taxon", r, None, o, l, NoRet, "InvalidQueryError", NoRet, FALSE)
              /\ UNCHANGED <<taxon_label, taxon_oid, clade_mask, members, is_mutable, live>>
         ELSE IF taxon # None
         THEN /\ call' = Call("require_taxon", r, None, o, l, NoRet, "ok", taxon, FALSE)
              /\ UNCHANGED <<taxon_label, taxon_oid, clade_mask, members, is_mutable, live>>
         ELSE /\ Len(taxon_label) < MaxTaxa
              /\ taxon_label' = Append(taxon_label, l)
              /\ taxon_oid' = Append(taxon_oid, IF o = None THEN default_oid(h) ELSE o)
              /\ clade_mask' = Append(clade_mask, NoMask)
              /\ members' = [members EXCEPT ![r] = OrderedSet_add(@, h)]
              /\ call' = Call("require_taxon", r, None, o, l, NoRet, "ok", h, FALSE)
              /\ UNCHANGED <<is_mutable, live>>

\* require_taxon(oid=o, label=l)
require_taxon(r, o, l) ==
  /\ r \in live
  /\ LET taxon == get_taxon(r, o, l)
         h == Len(taxon_label) + 1
     IN  IF o = None /\ l = NoLabel
         THEN \* get_taxon raises: neither criterion was supplied
              /\ call' = Call("require_taxon", r, None, o, l, NoRet, "InvalidQueryError", NoRet, FALSE)
              /\ UNCHANGED <<taxon_label, taxon_oid, clade_mask, members, is_mutable, live>>
         ELSE IF taxon # None
         THEN /\ call' = Call("require_taxon", r, None, o, l, NoRet, "ok", taxon, FALSE)
              /\ UNCHANGED <<taxon_label, taxon_oid, clade_mask, members, is_mutable, live>>
         ELSE IF is_mutable[r]
         THEN /\ Len(taxon_label) < MaxTaxa
              /\ taxon_label' = Append(taxon_label, l)
              /\ taxon_oid' = Append(taxon_oid, IF o = None THEN default_oid(h) ELSE o)
              /\ clade_mask' = Append(clade_mask, NoMask)
              /\ members' = [members EXCEPT ![r] = OrderedSet_add(@, h)]
              /\ call' = Call("require_taxon", r, None, o, l, NoRet, "ok", h, FALSE)
              /\ UNCHANGED <<is_mutable, live>>
         ELSE /\ call' = Call("require_taxon", r, None, o, l, NoRet, "ImmutableError", NoRet, FALSE)
              /\ UNCHANGED <<taxon_label, taxon_oid, clade_mask, members, is_mutable, live>>

\* add_taxon without the test of _is_mutable
add_taxon_ungated(r, t) ==
  /\ r \in live
  /\ t \in Handles
  /\ members' = [members EXCEPT ![r] = OrderedSet_add(@, t)]
  /\ call' = Call("add_taxon", r, t, None, NoLabel, NoRet, "ok", NoRet, FALSE)
  /\ UNCHANGED <<taxon_label, taxon_oid, clade_mask, is_mutable, live>>

\* add_taxon that appends to the list without the membership test of add()
add_taxon_appends(r, t) ==
  /\ r \in live
  /\ t \in Handles
  /\ IF ~is_mutable[r]
     THEN /\ call' = Call("add_taxon", r, t, None, NoLabel, NoRet, "ImmutableError", NoRet, FALSE)
          /\ UNCHANGED members
     ELSE /\ members' = [members EXCEPT ![r] = Append(@, t)]
          /\ call' = Call("add_taxon", r, t, None, NoLabel, NoRet, "ok", NoRet, FALSE)
  /\ UNCHANGED <<taxon_label, taxon_oid, clade_mask, is_mutable, live>>

\* add_taxon that puts a new member at the front of the list
add_taxon_prepends(r, t) ==
  /\ r \in live
  /\ t \in Handles
  /\ IF ~is_mutable[r]
     THEN /\ call' = Call("add_taxon", r, t, None, NoLabel, NoRet, "ImmutableError", NoRet, FALSE)
          /\ UNCHANGED members
     ELSE /\ members' = [members EXCEPT ![r] = IF t \in Range(@) THEN @ ELSE <<t>> \o @]
          /\ call' = Call("add_taxon", r, t, None, NoLabel, NoRet, "ok", NoRet, FALSE)
  /\ UNCHANGED <<taxon_label, taxon_oid, clade_mask, is_mutable, live>>

\* add_taxon(taxon)
add_taxon(r, t) ==
  /\ r \in live
  /\ t \in Handles
  /\ IF ~is_mutable[r]
     THEN /\ call' = Call("add_taxon", r, t, None, NoLabel, NoRet, "ImmutableError", NoRet, FALSE)
          /\ UNCHANGED members
     ELSE /\ members' = [members EXCEPT ![r] = OrderedSet_add(@, t)]
          /\ call' = Call("add_taxon", r, t, None, NoLabel, NoRet, "ok", NoRet, FALSE)
  /\ UNCHANGED <<taxon_label, taxon_oid, clade_mask, is_mutable, live>>

\* new_taxon that never looks at error_if_label_exists
new_taxon_ignores_flag(r, l, o, e) ==
  /\ r \in live
  /\ LET h == Len(taxon_label) + 1
     IN  IF ~is_mutable[r]
         THEN /\ call' = Call("new_taxon", r, None, o, l, NoRet, "ImmutableError", NoRet, e)
              /\ UNCHANGED <<taxon_label, taxon_oid, clade_mask, members, is_mutable, live>>
         ELSE /\ Len(taxon_label) < MaxTaxa
              /\ taxon_label' = Append(taxon_label, l)
              /\ taxon_oid' = Append(taxon_oid, IF o = None THEN default_oid(h) ELSE o)
              /\ clade_mask' = Append(clade_mask, NoMask)
              /\ members' = [members EXCEPT ![r] = OrderedSet_add(@, h)]
              /\ call' = Call("new_taxon", r, None, o, l, NoRet, "ok", h, e)
              /\ UNCHANGED <<is_mutable, live>>

\* new_taxon(label=l, oid=o, error_if_label_exists=e)
new_taxon(r, l, o, e) ==
  /\ r \in live
  /\ LET h == Len(taxon_label) + 1
     IN  IF ~is_mutable[r]
         THEN /\ call' = Call("new_taxon", r, None, o, l, NoRet, "ImmutableError", NoRet, e)
              /\ UNCHANGED <<taxon_label, taxon_oid, clade_mask, members, is_mutable, live>>
         ELSE IF e /\ get_taxon(r, None, l) # None
         THEN /\ call' = Call("new_taxon", r, None, o, l, NoRet, "DuplicateLabelError", NoRet, e)
              /\ UNCHANGED <<taxon_label, taxon_oid, clade_mask, members, is_mutable, live>>
         ELSE /\ Len(taxon_label) < MaxTaxa
              /\ taxon_label' = Append(taxon_label, l)
              /\ taxon_oid' = Append(taxon_oid, IF o = None THEN default_oid(h) ELSE o)
              /\ clade_mask' = Append(clade_mask, NoMask)
              /\ members' = [members EXCEPT ![r] = OrderedSet_add(@, h)]
              /\ call' = Call("new_taxon", r, None, o, l, NoRet, "ok", h, e)
              /\ UNCHANGED <<is_mutable, live>>

\* remove(taxon), inherited from OrderedSet
remove(r, t) ==
  /\ r \in live
  /\ t \in Handles
  /\ IF t \in Range(members[r])
     THEN /\ members' = [members EXCEPT ![r] = OrderedSet_remove(@, t)]
          /\ call' = Call("remove", r, t, None, NoLabel, NoRet, "ok", NoRet, FALSE)
     ELSE /\ call' = Call("remove", r, t, None, NoLabel, NoRet, "ValueError", NoRet, FALSE)
          /\ UNCHANGED members
  /\ UNCHANGED <<taxon_label, taxon_oid, clade_mask, is_mutable, live>>

\* The loop of clear(): `for t in self: self.remove(t)`.  The iterator holds a
\* position i into the list that the body is shrinking.
RECURSIVE clear_loop(_, _)
clear_loop(s, i) ==
  IF i > Len(s) THEN s
  ELSE clear_loop(OrderedSet_remove(s, s[i]), i + 1)

\* clear()
clear(r) ==
  /\ r \in live
  /\ members' = [members EXCEPT ![r] = clear_loop(@, 1)]
  /\ call' = Call("clear", r, None, None, NoLabel, NoRet, "ok", NoRet, FALSE)
  /\ UNCHANGED <<taxon_label, taxon_oid, clade_mask, is_mutable, live>>

\* ---------------------------------------------------- TaxonSet: bitmasks
\* all_taxa_bitmask(): the value returned
all_taxa_bitmask_value(r) ==
  LET b == ShiftLeft(1, Len(members[r]))
  IN  b - 1

\* complement_split_bitmask without the ~
complement_split_bitmask_uninverted(r, split) ==
  BitAnd(split, all_taxa_bitmask_value(r))

\* complement_split_bitmask(split): the value returned
complement_split_bitmask_value(r, split) ==
  BitAnd(Invert(split), all_taxa_bitmask_value(r))

all_taxa_bitmask(r) ==
  /\ r \in live
  /\ call' = Call("all_taxa_bitmask", r, None, None, NoLabel, NoRet, "ok",
                  all_taxa_bitmask_value(r), FALSE)
  /\ UNCHANGED <<taxon_label, taxon_oid, clade_mask, members, is_mutable, live>>

complement_split_bitmask(r, split) ==
  /\ r \in live
  /\ call' = Call("complement_split_bitmask", r, None, None, NoLabel, split, "ok",
                  complement_split_bitmask_value(r, split), FALSE)
  /\ UNCHANGED <<taxon_label, taxon_oid, clade_mask, members, is_mutable, live>>

\* taxon_bitmask that counts positions from 1: 1 << (i + 1)
taxon_bitmask_one_based(r, t) ==
  /\ r \in live
  /\ t \in Handles
  /\ IF clade_mask[t] # NoMask
     THEN /\ call' = Call("taxon_bitmask", r, t, None, NoLabel, NoRet, "ok", clade_mask[t], FALSE)
          /\ UNCHANGED clade_mask
     ELSE LET i == IndexOf(members[r], t) - 1
              m == ShiftLeft(1, i + 1)
          IN  IF i >= 0
              THEN /\ clade_mask' = [clade_mask EXCEPT ![t] = m]
                   /\ call' = Call("taxon_bitmask", r, t, None, NoLabel, NoRet, "ok", m, FALSE)
              ELSE /\ call' = Call("taxon_bitmask", r, t, None, NoLabel, NoRet, "NotFoundError", NoRet, FALSE)
                   /\ UNCHANGED clade_mask
  /\ UNCHANGED <<taxon_label, taxon_oid, members, is_mutable, live>>

\* taxon_bitmask that computes the mask from the position on every call
taxon_bitmask_recomputes(r, t) ==
  /\ r \in live
  /\ t \in Handles
  /\ LET i == IndexOf(members[r], t) - 1
         m == ShiftLeft(1, i)
     IN  IF i >= 0
         THEN /\ clade_mask' = [clade_mask EXCEPT ![t] = m]
              /\ call' = Call("taxon_bitmask", r, t, None, NoLabel, NoRet, "ok", m, FALSE)
         ELSE /\ call' = Call("taxon_bitmask", r, t, None, NoLabel, NoRet, "NotFoundError", NoRet, FALSE)
              /\ UNCHANGED clade_mask
  /\ UNCHANGED <<taxon_label, taxon_oid, members, is_mutable, live>>

\* taxon_bitmask that stores the mask of the current position whenever the
\* Taxon is a member, and falls back on the cached mask when it is not
taxon_bitmask_refreshes(r, t) ==
  /\ r \in live
  /\ t \in Handles
  /\ LET i == IndexOf(members[r], t) - 1
         m == ShiftLeft(1, i)
     IN  IF i >= 0
         THEN /\ clade_mask' = [clade_mask EXCEPT ![t] = m]
              /\ call' = Call("taxon_bitmask", r, t, None, NoLabel, NoRet, "ok", m, FALSE)
         ELSE IF clade_mask[t] # NoMask
         THEN /\ call' = Call("taxon_bitmask", r, t, None, NoLabel, NoRet, "ok", clade_mask[t], FALSE)
              /\ UNCHANGED clade_mask
         ELSE /\ call' = Call("taxon_bitmask", r, t, None, NoLabel, NoRet, "NotFoundError", NoRet, FALSE)
              /\ UNCHANGED clade_mask
  /\ UNCHANGED <<taxon_label, taxon_oid, members, is_mutable, live>>

\* taxon_bitmask(taxon)
taxon_bitmask(r, t) ==
  /\ r \in live
  /\ t \in Handles
  /\ IF clade_mask[t] # NoMask
     THEN /\ call' = Call("taxon_bitmask", r, t, None, NoLabel, NoRet, "ok", clade_mask[t], FALSE)
          /\ UNCHANGED clade_mask
     ELSE LET i == IndexOf(members[r], t) - 1
              m == ShiftLeft(1, i)
          IN  IF i >= 0
              THEN /\ clade_mask' = [clade_mask EXCEPT ![t] = m]
                   /\ call' = Call("taxon_bitmask", r, t, None, NoLabel, NoRet, "ok", m, FALSE)
              ELSE /\ call' = Call("taxon_bitmask", r, t, None, NoLabel, NoRet, "NotFoundError", NoRet, FALSE)
                   /\ UNCHANGED clade_mask
  /\ UNCHANGED <<taxon_label, taxon_oid, members, is_mutable, live>>

Init ==
  /\ taxon_label = <<>>
  /\ taxon_oid = <<>>
  /\ clade_mask = <<>>
  /\ members = [r \in Regs |-> <<>>]
  /\ is_mutable = [r \in Regs |-> TRUE]
  /\ live = {1}
  /\ call = Call("TaxonSet", 1, None, None, NoLabel, NoRet, "ok", NoRet, TRUE)

Next ==
  \/ \E l \in Labels : Taxon(l, None)
  \/ \E r \in Regs : lock(r)
  \/ \E r \in Regs : unlock(r)
  \/ \E r \in Regs : get_is_locked(r)
  \/ \E r \in Regs, v \in BOOLEAN : set_is_locked(r, v)
  \/ \E r \in Regs, o \in OidArgs, l \in LabelArgs : require_taxon(r, o, l)
  \/ \E r \in Regs, t \in Handles : add_taxon(r, t)
  \/ \E r \in Regs, l \in Labels, e \in BOOLEAN : new_taxon(r, l, None, e)
  \/ \E r \in Regs, t \in Handles : remove(r, t)
  \/ \E r \in Regs : clear(r)
  \/ \E r \in Regs : all_taxa_bitmask(r)
  \/ \E r \in Regs : \E split \in 0..all_taxa_bitmask_value(r) : complement_split_bitmask(r, split)
  \/ \E r \in Regs, t \in Handles : taxon_bitmask(r, t)

Spec == Init /\ [][Next]_vars

\* The iterables a caller hands to the constructor.
Items == {StrItem(l) : l \in Labels} \cup {TaxonItem(t) : t \in Handles} \cup {OtherItem}
Iterables == UNION {[1..k -> Items] : k \in 0..MaxItems}

\* Building a second TaxonSet from labels and from Taxon objects that exist
\* already, some of them members of the first TaxonSet.
NextConstruct ==
  \/ \E l \in Labels : Taxon(l, None)
  \/ \E t \in Handles : add_taxon(1, t)
  \/ \E la \in 0..2, items \in Iterables, m \in BOOLEAN : TaxonSet_init(2, la, items, m)
  \/ \E r \in Regs, t \in Handles : taxon_bitmask(r, t)
  \/ \E r \in Regs : lock(r)

SpecConstruct == Init /\ [][NextConstruct]_vars

\* ------------------------------------------------------------ properties
\* Some member of s carries label l.
HasLabel(s, l) == \E i \in 1..Len(s) : taxon_label[s[i]] = l

\* C1, as stated: add_taxon and new_taxon succeed, appending one member,
\* whenever the gate is unlocked; when it is locked they fail with the
\* immutable-registry error and leave the member sequence and the gate
\* unchanged.
C1_AddAndNewAlwaysAppend ==
  [][call'.op \in {"add_taxon", "new_taxon"} =>
       LET r == call'.reg
       IN  IF is_mutable[r]
           THEN /\ call'.outcome = "ok"
                /\ Len(members'[r]) = Len(members[r]) + 1
           ELSE /\ call'.outcome = "ImmutableError"
                /\ members' = members
                /\ is_mutable' = is_mutable]_vars

\* C1, amended: with the gate unlocked, add_taxon of an identity that is not
\* yet a member appends it, and new_taxon appends a fresh identity unless
\* error_if_label_exists is set and a member carries the label; with the gate
\* locked both fail with the immutable-registry error and leave the member
\* sequence and the gate unchanged.
C1_GateOnAddAndNew ==
  [][call'.op \in {"add_taxon", "new_taxon"} =>
       LET r == call'.reg
           s == members[r]
       IN  IF ~is_mutable[r]
           THEN /\ call'.outcome = "ImmutableError"
                /\ members' = members
                /\ is_mutable' = is_mutable
           ELSE IF call'.op = "add_taxon"
           THEN call'.taxon \notin Range(s) =>
                  /\ call'.outcome = "ok"
                  /\ members' = [members EXCEPT ![r] = Append(s, call'.taxon)]
           ELSE ~(call'.flag /\ HasLabel(s, call'.label)) =>
                  /\ call'.outcome = "ok"
                  /\ call'.ret \notin Handles
                  /\ taxon_label'[call'.ret] = call'.label
                  /\ members' = [members EXCEPT ![r] = Append(s, call'.ret)]]_vars

\* C1 witness: add_taxon was refused on a locked registry that has a member.
C1_Witness ==
  /\ call.op = "add_taxon"
  /\ call.outcome = "ImmutableError"
  /\ ~is_mutable[call.reg]
  /\ members[call.reg] # <<>>

\* C2: while the gate is locked no operation adds or removes a member, and
\* clear() on a locked registry fails with the immutable-registry error.
C2_LockedMembersFrozen ==
  [][\A r \in live :
       ~is_mutable[r] =>
         /\ members'[r] = members[r]
         /\ (call'.op = "clear" /\ call'.reg = r) => call'.outcome = "ImmutableError"]_vars

\* C3: taxon_bitmask of the member at 0-based position i returns 1 << i.
C3_BitmaskIsCurrentPosition ==
  (call.op = "taxon_bitmask" /\ call.taxon \in Range(members[call.reg])) =>
    /\ call.outcome = "ok"
    /\ call.ret = 2 ^ (IndexOf(members[call.reg], call.taxon) - 1)

\* C4: taxon_bitmask fails with the not-found error whenever the identity is
\* not a member of the registry asked.
C4_BitmaskOfNonMemberFails ==
  (call.op = "taxon_bitmask" /\ call.taxon \notin Range(members[call.reg])) =>
    call.outcome = "NotFoundError"

\* C5: is_locked reports the gate state (locked = not mutable): lock() makes
\* it true, unlock() false, assigning true to is_locked locks the registry, a
\* new registry is not locked, and only lock, unlock and the setter change
\* the gate.
C5_IsLockedReportsGate ==
  [][/\ call'.op = "get_is_locked" => call'.flag = ~is_mutable'[call'.reg]
     /\ call'.op = "lock" => ~is_mutable'[call'.reg]
     /\ call'.op = "unlock" => is_mutable'[call'.reg]
     /\ call'.op = "set_is_locked" => is_mutable'[call'.reg] = ~call'.flag
     /\ \A r \in live : is_mutable'[r] # is_mutable[r] =>
          call'.op \in {"lock", "unlock", "set_is_locked"}]_vars

\* C6: after clear() on an unlocked registry the member sequence is empty and
\* all_taxa_bitmask() is 0.
C6_ClearEmpties ==
  (call.op = "clear" /\ is_mutable[call.reg]) =>
    /\ members[call.reg] = <<>>
    /\ all_taxa_bitmask_value(call.reg) = 0

\* C7: every existing identity in the iterable handed to the constructor
\* yields a new, distinct member with the same label; the identity handed in
\* is not itself a member of the new registry.
C7_ConstructorCopiesIdentities ==
  [][\A items \in Iterables, m \in BOOLEAN :
       (TaxonSet_init(2, 1, items, m) /\ call'.outcome = "ok") =>
         \A i \in 1..Len(items) :
           items[i].kind = "Taxon" =>
             /\ items[i].taxon \notin Range(members'[2])
             /\ \E t \in Range(members'[2]) :
                  /\ t \notin Handles
                  /\ taxon_label'[t] = taxon_label[items[i].taxon]]_vars

\* C8: on an unlocked registry with no member labelled X, require_taxon(label=X)
\* appends exactly one new member labelled X and returns it; when a member
\* labelled X exists (as it does from then on, while it stays a member),
\* require_taxon(label=X) returns the first such member, the same identity as
\* the call before it returned, and leaves the member sequence unchanged.
C8_RequireTaxonIdempotent ==
  [][(call'.op = "require_taxon" /\ call'.oid = None /\ call'.label # NoLabel) =>
       LET r == call'.reg
           X == call'.label
           s == members[r]
       IN  IF HasLabel(s, X)
           THEN /\ call'.outcome = "ok"
                /\ members' = members
                /\ taxon_label' = taxon_label
                /\ call'.ret \in Range(s)
                /\ taxon_label[call'.ret] = X
                /\ \A j \in 1..(IndexOf(s, call'.ret) - 1) : taxon_label[s[j]] # X
                /\ (call.op = "require_taxon" /\ call.reg = r /\ call.oid = None
                      /\ call.label = X /\ call.outcome = "ok") => call'.ret = call.ret
           ELSE is_mutable[r] =>
                /\ call'.outcome = "ok"
                /\ call'.ret \notin Handles
                /\ Len(taxon_label') = Len(taxon_label) + 1
                /\ taxon_label'[call'.ret] = X
                /\ members' = [members EXCEPT ![r] = Append(s, call'.ret)]]_vars

\* C8 witness: require_taxon(label=X) returned the member labelled X, which
\* stands second in the registry behind a member that carries another label.
C8_Witness ==
  /\ call.op = "require_taxon"
  /\ call.outcome = "ok"
  /\ call.label \in Labels
  /\ Len(members[call.reg]) = 2
  /\ members[call.reg][2] = call.ret
  /\ taxon_label[call.ret] = call.label
  /\ taxon_label[members[call.reg][1]] # call.label

\* C9: on a locked registry, require_taxon with criteria matching no member
\* fails with the immutable-registry error and leaves the member sequence
\* unchanged; with criteria matching a member it returns a matching member
\* without error and without changing the sequence.
C9_RequireTaxonLocked ==
  [][(call'.op = "require_taxon" /\ ~is_mutable[call'.reg]
        /\ (call'.oid # None \/ call'.label # NoLabel)) =>
       LET s == members[call'.reg]
           match(t) == \/ (call'.oid # None /\ taxon_oid[t] = call'.oid)
                       \/ (call'.label # NoLabel /\ taxon_label[t] = call'.label)
       IN  /\ members' = members
           /\ taxon_label' = taxon_label
           /\ IF \E t \in Range(s) : match(t)
              THEN /\ call'.outcome = "ok"
                   /\ call'.ret \in Range(s)
                   /\ match(call'.ret)
              ELSE call'.outcome = "ImmutableError"]_vars

\* C9 witness: a locked registry with a member refused to create a Taxon for a
\* label that no member carries.
C9_Witness ==
  /\ call.op = "require_taxon"
  /\ call.outcome = "ImmutableError"
  /\ ~is_mutable[call.reg]
  /\ members[call.reg] # <<>>
  /\ ~HasLabel(members[call.reg], call.label)

\* C10: for every mask m in 0..all_taxa_bitmask(), complement_split_bitmask(m)
\* is m XOR all_taxa_bitmask(), its union with m is all_taxa_bitmask(), its
\* intersection with m is 0, and the complement of the complement is m.
C10_ComplementLaws ==
  /\ \A r \in live :
       LET all == (2 ^ Len(members[r])) - 1
       IN  \A m \in 0..all :
             LET c == complement_split_bitmask_value(r, m)
             IN  /\ all_taxa_bitmask_value(r) = all
                 /\ c = BitXor(m, all)
                 /\ BitOr(c, m) = all
                 /\ BitAnd(c, m) = 0
                 /\ complement_split_bitmask_value(r, c) = m
  /\ call.op = "complement_split_bitmask" =>
       call.ret = BitXor(call.mask, (2 ^ Len(members[call.reg])) - 1)

\* C10 witness: the complement of a mask that is neither empty nor full was
\* taken in a registry of two members.
C10_Witness ==
  /\ call.op = "complement_split_bitmask"
  /\ Len(members[call.reg]) = 2
  /\ call.mask \in {1, 2}
  /\ call.ret = 3 - call.mask

\* ------------------------------------------------------- C11: fresh registry
\* Iterables of label strings only.
LabelIterables == UNION {[1..k -> {StrItem(l) : l \in Labels}] : k \in 0..MaxItems}

\* A TaxonSet built from a list of labels and then only queried; Taxon
\* objects outside it exist as well.
NextFresh ==
  \/ \E l \in Labels : Taxon(l, None)
  \/ \E items \in LabelIterables, m \in BOOLEAN : TaxonSet_init(2, 1, items, m)
  \/ \E t \in Handles : taxon_bitmask(2, t)
  \/ all_taxa_bitmask(2)
  \/ lock(2)
  \/ unlock(2)

SpecFresh == Init /\ [][NextFresh]_vars

\* The labels of the members of s are pairwise distinct.
DistinctLabels(s) ==
  \A i, j \in 1..Len(s) : taxon_label[s[i]] = taxon_label[s[j]] => i = j

\* 1 | 2 | 4 | ... over the first n bit positions
RECURSIVE OrOfBits(_)
OrOfBits(n) == IF n = 0 THEN 0 ELSE BitOr(OrOfBits(n - 1), 2 ^ (n - 1))

\* C11: in a registry freshly built from n distinct labels, taxon_bitmask of
\* the member made for the i-th label (0-based) is 1 << i whatever the order
\* of the queries, and all_taxa_bitmask() is (1 << n) - 1, the bitwise OR of
\* the members' bitmasks.
C11_FreshBitmasks ==
  (2 \in live /\ DistinctLabels(members[2])) =>
    LET s == members[2]
        n == Len(s)
    IN  /\ \A i \in 1..n : clade_mask[s[i]] \in {NoMask, 2 ^ (i - 1)}
        /\ (call.op = "taxon_bitmask" /\ call.taxon \in Range(s)) =>
             /\ call.outcome = "ok"
             /\ call.ret = 2 ^ (IndexOf(s, call.taxon) - 1)
        /\ call.op = "all_taxa_bitmask" =>
             /\ call.ret = (2 ^ n) - 1
             /\ call.ret = OrOfBits(n)

\* C11 witness: both members of a registry built from two distinct labels
\* have been queried, the second one first.
C11_Witness ==
  /\ 2 \in live
  /\ Len(members[2]) = 2
  /\ DistinctLabels(members[2])
  /\ call.op = "taxon_bitmask"
  /\ call.taxon = members[2][1]
  /\ call.ret = 1
  /\ clade_mask[members[2][2]] = 2

\* --------------------------------------------------- C12: set of references
\* Two TaxonSets that are built, filled and emptied, sharing Taxon objects.
NextMembers ==
  \/ \E l \in Labels : Taxon(l, None)
  \/ \E la \in 0..2, items \in Iterables, m \in BOOLEAN : TaxonSet_init(2, la, items, m)
  \/ \E r \in Regs, t \in Handles : add_taxon(r, t)
  \/ \E r \in Regs, l \in Labels, e \in BOOLEAN : new_taxon(r, l, None, e)
  \/ \E r \in Regs, o \in OidArgs, l \in LabelArgs : require_taxon(r, o, l)
  \/ \E r \in Regs, t \in Handles : remove(r, t)
  \/ \E r \in Regs : clear(r)

SpecMembers == Init /\ [][NextMembers]_vars

\* No element occurs twice in s.
NoDuplicates(s) == \A i, j \in 1..Len(s) : s[i] = s[j] => i = j

\* C12: no identity reference appears twice in the member sequence of any
\* registry, and add_taxon of an identity that is already a member leaves the
\* sequence unchanged; identities with equal labels are distinct members.
C12_NoDuplicateMembers ==
  [][/\ \A r \in Regs : NoDuplicates(members'[r])
     /\ (call'.op = "add_taxon" /\ call'.taxon \in Range(members[call'.reg])) =>
          members' = members]_vars

\* C12 witness: add_taxon was called for one of two members that carry the
\* same label.
C12_Witness ==
  /\ call.op = "add_taxon"
  /\ call.outcome = "ok"
  /\ Len(members[call.reg]) = 2
  /\ call.taxon \in Range(members[call.reg])
  /\ NoDuplicates(members[call.reg])
  /\ taxon_label[members[call.reg][1]] = taxon_label[members[call.reg][2]]

\* ------------------------------------------------- C13, C14: deep clone
\* A TaxonSet that is filled, queried and emptied, deep-cloned once, and the
\* clone used in the same ways.  Labels play no part here: every Taxon is "A".
NextClone ==
  \/ Taxon("A", None)
  \/ \E r \in Regs, t \in Handles : add_taxon(r, t)
  \/ \E r \in Regs : new_taxon(r, "A", None, FALSE)
  \/ \E r \in Regs, t \in Handles : remove(r, t)
  \/ \E r \in Regs : clear(r)
  \/ \E r \in Regs : lock(r)
  \/ \E r \in Regs : unlock(r)
  \/ deepcopy(1, 2)
  \/ \E r \in Regs : get_taxon_call(r, None, "A")
  \/ \E r \in Regs, t \in Handles : taxon_bitmask(r, t)

SpecClone == Init /\ [][NextClone]_vars

\* C13: deep-cloning yields a new registry with the same identity references
\* in the same order and the same gate state, and creates no identity; a
\* bitmask asked of one registry and then of the other for a shared member
\* is the same value; adding to one registry leaves the other's sequence.
C13_DeepCloneSharesIdentities ==
  [][/\ call'.op = "deepcopy" =>
          LET r == call'.reg
              o == call'.ret
          IN  /\ o \notin live
              /\ o \in live'
              /\ members'[o] = members[r]
              /\ members'[r] = members[r]
              /\ is_mutable'[o] = is_mutable[r]
              /\ is_mutable'[r] = is_mutable[r]
              /\ taxon_label' = taxon_label
              /\ clade_mask' = clade_mask
     /\ call'.op \in {"add_taxon", "new_taxon"} =>
          \A r \in Regs \ {call'.reg} : members'[r] = members[r]
     /\ (call.op = "taxon_bitmask" /\ call.outcome = "ok"
           /\ call'.op = "taxon_bitmask" /\ call'.taxon = call.taxon
           /\ call'.reg # call.reg
           /\ call.taxon \in Range(members[1]) \cap Range(members[2])) =>
          /\ call'.outcome = "ok"
          /\ call'.ret = call.ret]_vars

\* C13 witness: the clone has the original's members and one more, and the
\* bitmask of a shared member was asked of the clone.
C13_Witness ==
  /\ 2 \in live
  /\ members[1] # <<>>
  /\ Len(members[2]) = Len(members[1]) + 1
  /\ SubSeq(members[2], 1, Len(members[1])) = members[1]
  /\ is_mutable[2] = is_mutable[1]
  /\ call.op = "taxon_bitmask"
  /\ call.reg = 2
  /\ call.outcome = "ok"
  /\ call.taxon \in Range(members[1])

NextFactory == \E ntax \in 0..MaxCount : new_taxon_set(2, ntax)

SpecFactory == Init /\ [][NextFactory]_vars

\* The number of decimal digits of n >= 1.
RECURSIVE DecimalDigits(_)
DecimalDigits(n) == IF n < 10 THEN 1 ELSE 1 + DecimalDigits(n \div 10)

\* The last w decimal digits of x, as a string of exactly w characters.
RECURSIVE PaddedDecimal(_, _)
PaddedDecimal(x, w) ==
  IF w = 0 THEN "" ELSE PaddedDecimal(x \div 10, w - 1) \o Digit(x % 10)

\* C16: for every count >= 1 the factory yields a registry of exactly count
\* members whose labels, in member order, are "T" followed by the 1-based
\* index zero-padded to the number of decimal digits of count.
C16_FactoryLabels ==
  (call.op = "new_taxon_set" /\ call.count >= 1) =>
    LET s == members[call.ret]
        w == DecimalDigits(call.count)
    IN  /\ call.outcome = "ok"
        /\ Len(s) = call.count
        /\ \A i \in 1..Len(s) : taxon_label[s[i]] = "T" \o PaddedDecimal(i, w)

\* ------------------------------------------------------ C17: queries
\* The oid and the Taxon a lookup may name.
OidCriteria == {None} \cup (1..MaxTaxa)
TaxonCriteria == {None} \cup Handles

\* Lookups by at most one criterion: a Taxon, an oid or a label.
SingleCriteria ==
  {<<t, None, NoLabel>> : t \in TaxonCriteria}
    \cup {<<None, o, NoLabel>> : o \in OidCriteria}
    \cup {<<None, None, l>> : l \in LabelArgs}

\* One TaxonSet whose members come and go and whose gate opens and closes,
\* asked every lookup and bitmask question.
NextLookup ==
  \/ \E l \in Labels : Taxon(l, None)
  \/ \E t \in Handles : add_taxon(1, t)
  \/ \E t \in Handles : remove(1, t)
  \/ lock(1)
  \/ unlock(1)
  \/ \E c \in SingleCriteria : has_taxon(1, c[1], c[2], c[3])
  \/ \E given \in BOOLEAN, taxa \in {{}} \cup {{t} : t \in Handles},
        oids \in {{}, {1}}, ls \in {{}, {"A"}, Labels} : has_taxa(1, given, taxa, oids, ls)
  \/ \E c \in SingleCriteria : get_taxon_call(1, c[2], c[3])
  \/ labels(1)
  \/ all_taxa_bitmask(1)
  \/ \E split \in 0..all_taxa_bitmask_value(1) : complement_split_bitmask(1, split)
  \/ \E split \in 0..all_taxa_bitmask_value(1) : split_bitmask_string(1, split)
  \/ \E t \in Handles : taxon_bitmask(1, t)

SpecLookup == Init /\ [][NextLookup]_vars

\* The lookup and bitmask operations.
QueryOps ==
  {"has_taxon", "has_taxa", "get_taxon", "labels", "all_taxa_bitmask",
   "complement_split_bitmask", "split_bitmask_string", "taxon_bitmask"}

\* C17: the lookup and bitmask operations are permitted in both gate states
\* and leave the member sequence, the gate and the identities unchanged; the
\* only state any of them changes is the cached bit of the identity passed to
\* taxon_bitmask, and only when that identity had none.
C17_QueriesChangeOnlyTheCache ==
  [][call'.op \in QueryOps =>
       /\ call'.outcome # "ImmutableError"
       /\ members' = members
       /\ is_mutable' = is_mutable
       /\ live' = live
       /\ taxon_label' = taxon_label
       /\ taxon_oid' = taxon_oid
       /\ \A t \in Handles :
            clade_mask'[t] # clade_mask[t] =>
              /\ call'.op = "taxon_bitmask"
              /\ call'.taxon = t
              /\ clade_mask[t] = NoMask]_vars

\* C17 witness: on a locked registry taxon_bitmask gave a member its cached
\* bit.
C17_Witness ==
  /\ call.op = "taxon_bitmask"
  /\ call.outcome = "ok"
  /\ ~is_mutable[call.reg]
  /\ Len(members[call.reg]) = 2
  /\ call.taxon = members[call.reg][2]
  /\ clade_mask[call.taxon] = 2
  /\ clade_mask[members[call.reg][1]] = NoMask

\* ------------------------------------------------------ C18: append-only
\* One TaxonSet that only grows, with its gate opened and closed and its
\* bitmasks queried; no other TaxonSet exists.
NextAppend ==
  \/ \E l \in Labels : Taxon(l, None)
  \/ \E t \in Handles : add_taxon(1, t)
  \/ \E l \in Labels, e \in BOOLEAN : new_taxon(1, l, None, e)
  \/ \E o \in OidArgs, l \in LabelArgs : require_taxon(1, o, l)
  \/ lock(1)
  \/ unlock(1)
  \/ all_taxa_bitmask(1)
  \/ \E t \in Handles : taxon_bitmask(1, t)

SpecAppend == Init /\ [][NextAppend]_vars

\* C18: in an append-only run every cached bit is 1 << (position of the
\* member), taxon_bitmask never fails for a member, and two distinct members
\* never have the same bitmask.
C18_AppendOnlyBitmasks ==
  LET s == members[1]
  IN  /\ \A t \in Handles :
           clade_mask[t] # NoMask =>
             /\ t \in Range(s)
             /\ clade_mask[t] = 2 ^ (IndexOf(s, t) - 1)
      /\ (call.op = "taxon_bitmask" /\ call.taxon \in Range(s)) =>
           /\ call.outcome = "ok"
           /\ call.ret = 2 ^ (IndexOf(s, call.taxon) - 1)
      /\ \A i, j \in 1..Len(s) :
           (i # j /\ clade_mask[s[i]] # NoMask) => clade_mask[s[i]] # clade_mask[s[j]]

\* C18 witness: the second member was queried before the first, with the
\* registry growing and being locked in between.
C18_Witness ==
  /\ Len(members[1]) = 2
  /\ ~is_mutable[1]
  /\ call.op = "taxon_bitmask"
  /\ call.taxon = members[1][1]
  /\ call.ret = 1
  /\ clade_mask[members[1][2]] = 2

\* ------------------------------------------------------ C19: lookups
\* One TaxonSet whose members come and go, queried by every combination of
\* reference, oid and label.
NextFind ==
  \/ \E l \in Labels : Taxon(l, None)
  \/ \E t \in Handles : add_taxon(1, t)
  \/ \E t \in Handles : remove(1, t)
  \/ \E t \in TaxonCriteria, o \in OidCriteria, l \in LabelArgs : has_taxon(1, t, o, l)
  \/ \E o \in OidCriteria, l \in LabelArgs : get_taxon_call(1, o, l)

SpecFind == Init /\ [][NextFind]_vars

\* C19: get_taxon returns the member of lowest position whose oid or label
\* equals the one given, and None (without error) when there is none;
\* has_taxon with the same criteria is true exactly when such a member exists,
\* and has_taxon(taxon=t) is true exactly when t is a member.
C19_LookupResults ==
  LET s == members[1]
      given == call.oid # None \/ call.label # NoLabel
      match(i) == \/ (call.oid # None /\ taxon_oid[s[i]] = call.oid)
                  \/ (call.label # NoLabel /\ taxon_label[s[i]] = call.label)
      first(i) == match(i) /\ \A j \in 1..(i-1) : ~match(j)
  IN  /\ (call.op = "get_taxon" /\ given) =>
           /\ call.outcome = "ok"
           /\ IF \E i \in 1..Len(s) : match(i)
              THEN \E i \in 1..Len(s) : first(i) /\ call.ret = s[i]
              ELSE call.ret = None
      /\ (call.op = "has_taxon" /\ call.taxon = None /\ given) =>
           /\ call.outcome = "ok"
           /\ call.flag <=> \E i \in 1..Len(s) : match(i)
      /\ (call.op = "has_taxon" /\ call.taxon # None /\ ~given) =>
           /\ call.outcome = "ok"
           /\ call.flag <=> call.taxon \in Range(s)

\* C19 witness: the oid given is the second member's and the label given is
\* the first member's, and get_taxon returned the first member.
C19_Witness ==
  /\ Len(members[1]) = 2
  /\ call.op = "get_taxon"
  /\ call.oid = taxon_oid[members[1][2]]
  /\ call.label = taxon_label[members[1][1]]
  /\ taxon_label[members[1][2]] # call.label
  /\ call.ret = members[1][1]
====
